---- MODULE Spec2Model ----
(***************************************************************************)
(* State-machine model of package uuid (alex-held/uuid): the ValidatedUUID *)
(* value type, its constructors, its validation-gated conversions and the  *)
(* helper compositions of helpers.go.                                      *)
(*                                                                         *)
(* A Go string and a []byte are both modelled as a sequence of one-        *)
(* character strings, one element per byte.  A raw uuid.UUID is a function *)
(* 1..16 -> 0..255.  A Go error is the chain of its messages, outermost    *)
(* first: fmt.Errorf("m") is <<"m">>, fmt.Errorf("m: %w", e) is            *)
(* <<"m">> \o e, and the nil error is <<>>.                                *)
(***************************************************************************)
EXTENDS Integers, Sequences, FiniteSets, TLC

(***************************************************************************)
(* Bounds of the model.                                                    *)
(***************************************************************************)
\* number of distinct non-zero raw UUID values the inputs are built from
NumRaw == 2
\* longest sequence of in-place decode calls followed by SeqSpec
MaxCalls == 3

(***************************************************************************)
(* The external primitive github.com/google/uuid: Nil, Parse, String, New. *)
(***************************************************************************)
Digits == <<"0", "1", "2", "3", "4", "5", "6", "7", "8", "9">>
LowerLetters ==
  <<"a", "b", "c", "d", "e", "f", "g", "h", "i", "j", "k", "l", "m",
    "n", "o", "p", "q", "r", "s", "t", "u", "v", "w", "x", "y", "z">>
UpperLetters ==
  <<"A", "B", "C", "D", "E", "F", "G", "H", "I", "J", "K", "L", "M",
    "N", "O", "P", "Q", "R", "S", "T", "U", "V", "W", "X", "Y", "Z">>

IndexOf(seq, c) ==
  IF \E i \in 1..Len(seq) : seq[i] = c
  THEN CHOOSE i \in 1..Len(seq) : seq[i] = c
  ELSE 0

\* the all-zero UUID
Nil == [i \in 1..16 |-> 0]

HexChars ==
  {Digits[i] : i \in 1..10} \cup {LowerLetters[i] : i \in 1..6}
    \cup {UpperLetters[i] : i \in 1..6}

\* xvalues: the table of the values of the hexadecimal characters
xvalues ==
  [c \in HexChars |->
     IF IndexOf(Digits, c) # 0 THEN IndexOf(Digits, c) - 1
     ELSE IF IndexOf(LowerLetters, c) # 0 THEN 9 + IndexOf(LowerLetters, c)
     ELSE 9 + IndexOf(UpperLetters, c)]

\* a table lookup; 255 for any byte that is no hexadecimal character
xvalue(c) == IF c \in HexChars THEN xvalues[c] ELSE 255

\* xtob: two hexadecimal characters to one byte
xtob(x1, x2) ==
  LET b1 == xvalue(x1)
      b2 == xvalue(x2)
  IN [b |-> (b1 * 16 + b2) % 256, ok |-> b1 # 255 /\ b2 # 255]

UpperSet == {UpperLetters[i] : i \in 1..26}

ToLowerChar(c) ==
  IF c \in UpperSet THEN LowerLetters[IndexOf(UpperLetters, c)] ELSE c

\* strings.EqualFold on two texts of ASCII characters
EqualFold(s, t) ==
  /\ Len(s) = Len(t)
  /\ \A i \in 1..Len(s) : ToLowerChar(s[i]) = ToLowerChar(t[i])

UrnPrefix == <<"u", "r", "n", ":", "u", "u", "i", "d", ":">>

\* 1-based offsets of the sixteen byte pairs in the hyphenated form
HexOffsets == <<1, 3, 5, 7, 10, 12, 15, 17, 20, 22, 25, 27, 29, 31, 33, 35>>

\* the xxxxxxxx-xxxx-xxxx-xxxx-xxxxxxxxxxxx body; s holds at least 36 bytes
uuidParseHyphenated(s) ==
  IF s[9] # "-" \/ s[14] # "-" \/ s[19] # "-" \/ s[24] # "-"
  THEN [uuid |-> Nil, err |-> <<"invalid UUID format">>]
  ELSE LET bytes == [i \in 1..16 |-> xtob(s[HexOffsets[i]], s[HexOffsets[i] + 1])]
       IN IF \E i \in 1..16 : ~bytes[i].ok
          THEN [uuid |-> Nil, err |-> <<"invalid UUID format">>]
          ELSE [uuid |-> [i \in 1..16 |-> bytes[i].b], err |-> <<>>]

\* uuid.Parse: the four accepted encodings, selected by length (the braces
\* of the 38-byte form are checked, as the library does from v1.4.0 on)
uuidParse(s) ==
  CASE Len(s) = 36 -> uuidParseHyphenated(s)
    [] Len(s) = 45 ->
         IF ~EqualFold(SubSeq(s, 1, 9), UrnPrefix)
         THEN [uuid |-> Nil, err |-> <<"invalid urn prefix">>]
         ELSE uuidParseHyphenated(SubSeq(s, 10, 45))
    [] Len(s) = 38 ->
         IF s[1] # "{" \/ s[38] # "}"
         THEN [uuid |-> Nil, err |-> <<"invalid bracketed UUID format">>]
         ELSE uuidParseHyphenated(SubSeq(s, 2, 38))
    [] Len(s) = 32 ->
         LET bytes == [i \in 1..16 |-> xtob(s[2 * i - 1], s[2 * i])]
         IN IF \E i \in 1..16 : ~bytes[i].ok
            THEN [uuid |-> Nil, err |-> <<"invalid UUID format">>]
            ELSE [uuid |-> [i \in 1..16 |-> bytes[i].b], err |-> <<>>]
    [] OTHER -> [uuid |-> Nil, err |-> <<"invalid UUID length">>]

HexChar(n) == IF n < 10 THEN Digits[n + 1] ELSE LowerLetters[n - 9]

HexOfBytes(raw, from, to) ==
  [k \in 1..(2 * (to - from + 1)) |->
     IF k % 2 = 1 THEN HexChar(raw[from + (k - 1) \div 2] \div 16)
     ELSE HexChar(raw[from + (k - 1) \div 2] % 16)]

\* uuid.UUID.String: the canonical lower-case hyphenated form
uuidString(raw) ==
  HexOfBytes(raw, 1, 4) \o <<"-">> \o HexOfBytes(raw, 5, 6) \o <<"-">>
    \o HexOfBytes(raw, 7, 8) \o <<"-">> \o HexOfBytes(raw, 9, 10) \o <<"-">>
    \o HexOfBytes(raw, 11, 16)

\* 550e8400-e29b-41d4-a716-446655440000, the identifier the tests use
TestUUID == <<85, 14, 132, 0, 226, 155, 65, 212, 167, 22, 68, 102, 85, 68, 0, 0>>

\* the k-th raw value of the model: 0 is Nil, 1 the tests' identifier
RawOf(k) ==
  IF k = 0 THEN Nil
  ELSE IF k = 1 THEN TestUUID
  ELSE [i \in 1..16 |-> (171 * k + 16 * i) % 256]

NonZeroRaws == {RawOf(k) : k \in 1..NumRaw}

\* uuid.New: any value of the generator, which never yields Nil
uuidNew == NonZeroRaws

(***************************************************************************)
(* encoding/json on a string, and the generated message types.             *)
(***************************************************************************)
Quote == "\""
Backslash == "\\"
JSONNull == <<"n", "u", "l", "l">>
JSONSyntaxError == <<"json: cannot unmarshal into Go value of type string">>

\* json.Marshal of a string with no character that needs escaping
jsonMarshalString(s) == <<Quote>> \o s \o <<Quote>>

\* json.Unmarshal(data, &s) with s == "", on documents without white space or
\* escape sequences: a string scalar is unquoted, null leaves s alone and is
\* no error, anything else is an error of the notation
jsonUnmarshalString(data) ==
  IF data = JSONNull THEN [s |-> <<>>, err |-> <<>>]
  ELSE IF /\ Len(data) >= 2
          /\ data[1] = Quote
          /\ data[Len(data)] = Quote
          /\ \A i \in 2..(Len(data) - 1) : data[i] \notin {Quote, Backslash}
  THEN [s |-> SubSeq(data, 2, Len(data) - 1), err |-> <<>>]
  ELSE [s |-> <<>>, err |-> JSONSyntaxError]

\* dynamically typed values: interface{} contents, pointers, results
NilRef == [type |-> "nil"]
StringOf(s) == [s |-> s, type |-> "string"]
BytesOf(b) == [b |-> b, type |-> "[]byte"]
Int64Of(n) == [n |-> n, type |-> "int64"]
\* &UUID{Val: s}, the structured message
MsgOf(s) == [type |-> "*UUID", Val |-> s]
\* wrapperspb.String(s)
WrapString(s) == [type |-> "*StringValue", Value |-> s]
\* (*UUID).GetVal: the field, or "" on a nil receiver
GetVal(pb) == IF pb = NilRef THEN <<>> ELSE pb.Val

(***************************************************************************)
(* validated_uuid.go                                                       *)
(***************************************************************************)
NoError == <<>>
Errorf(msg) == <<msg>>
Wrapf(msg, err) == <<msg>> \o err

ErrEmpty == "UUID cannot be empty"
ErrFormat == "invalid UUID format"
ErrZero == "UUID cannot be nil/zero value"
ErrScanNil == "UUID cannot be nil"
ErrScanType == "cannot scan %T into UUID"
ErrNilProto == "protobuf UUID cannot be nil"
ErrNilStringValue == "StringValue cannot be nil"
CtxJSONMarshal == "UUID validation failed during JSON marshalling"
CtxJSONUnmarshal == "UUID validation failed during JSON unmarshalling"
CtxDBWrite == "UUID validation failed during database write"
CtxDBScan == "UUID validation failed during database scan"
CtxProtoMarshal == "UUID validation failed during protobuf marshalling"
CtxStringValue == "UUID validation failed"

\* ValidatedUUID{UUID: raw}; ValidatedUUID{} is the default value
Validated(raw) == [UUID |-> raw]
ZeroUUID == Validated(Nil)

New == {Validated(r) : r \in uuidNew}

\* Parse without the comparison against uuid.Nil
ParseNoZeroCheck(s) ==
  IF s = <<>> THEN [err |-> Errorf(ErrEmpty), val |-> ZeroUUID]
  ELSE LET parsed == uuidParse(s)
       IN IF parsed.err # NoError
          THEN [err |-> Wrapf(ErrFormat, parsed.err), val |-> ZeroUUID]
          ELSE [err |-> NoError, val |-> Validated(parsed.uuid)]

\* Parse without the test for the empty string
ParseNoEmptyCheck(s) ==
  LET parsed == uuidParse(s)
  IN IF parsed.err # NoError
     THEN [err |-> Wrapf(ErrFormat, parsed.err), val |-> ZeroUUID]
     ELSE IF parsed.uuid = Nil
     THEN [err |-> Errorf(ErrZero), val |-> ZeroUUID]
     ELSE [err |-> NoError, val |-> Validated(parsed.uuid)]

Parse(s) ==
  IF s = <<>> THEN [err |-> Errorf(ErrEmpty), val |-> ZeroUUID]
  ELSE LET parsed == uuidParse(s)
       IN IF parsed.err # NoError
          THEN [err |-> Wrapf(ErrFormat, parsed.err), val |-> ZeroUUID]
          ELSE IF parsed.uuid = Nil
          THEN [err |-> Errorf(ErrZero), val |-> ZeroUUID]
          ELSE [err |-> NoError, val |-> Validated(parsed.uuid)]

FromGoogleUUID(raw) ==
  IF raw = Nil THEN [err |-> Errorf(ErrZero), val |-> ZeroUUID]
  ELSE [err |-> NoError, val |-> Validated(raw)]

IsZero(v) == v.UUID = Nil

Validate(v) == IF v.UUID = Nil THEN Errorf(ErrZero) ELSE NoError

\* String as the plain hexadecimal encoding of the sixteen bytes
StringNoHyphens(v) == HexOfBytes(v.UUID, 1, 16)

String(v) == uuidString(v.UUID)

\* MarshalJSON that emits the text without encoding it as a JSON string
MarshalJSONUnquoted(v) ==
  IF Validate(v) # NoError
  THEN [err |-> Wrapf(CtxJSONMarshal, Validate(v)), out |-> NilRef]
  ELSE [err |-> NoError, out |-> BytesOf(String(v))]

MarshalJSON(v) ==
  IF Validate(v) # NoError
  THEN [err |-> Wrapf(CtxJSONMarshal, Validate(v)), out |-> NilRef]
  ELSE [err |-> NoError, out |-> BytesOf(jsonMarshalString(String(v)))]

\* UnmarshalJSON that stores what Parse returned before looking at the error
UnmarshalJSONAssignFirst(v, data) ==
  LET decoded == jsonUnmarshalString(data)
      parsed == Parse(decoded.s)
  IN IF decoded.err # NoError THEN [err |-> decoded.err, dst |-> v]
     ELSE IF parsed.err # NoError
     THEN [err |-> Wrapf(CtxJSONUnmarshal, parsed.err), dst |-> parsed.val]
     ELSE [err |-> NoError, dst |-> parsed.val]

\* pointer receiver: dst is *u on return
UnmarshalJSON(v, data) ==
  LET decoded == jsonUnmarshalString(data)
      parsed == Parse(decoded.s)
  IN IF decoded.err # NoError THEN [err |-> decoded.err, dst |-> v]
     ELSE IF parsed.err # NoError
     THEN [err |-> Wrapf(CtxJSONUnmarshal, parsed.err), dst |-> v]
     ELSE [err |-> NoError, dst |-> parsed.val]

\* Value without the call of Validate
ValueUnchecked(v) == [err |-> NoError, out |-> StringOf(String(v))]

Value(v) ==
  IF Validate(v) # NoError
  THEN [err |-> Wrapf(CtxDBWrite, Validate(v)), out |-> NilRef]
  ELSE [err |-> NoError, out |-> StringOf(String(v))]

\* the string the type switch of Scan extracts
ScanText(value) == IF value.type = "string" THEN value.s ELSE value.b

\* Scan that stores what Parse returned before looking at the error
ScanAssignFirst(v, value) ==
  IF value = NilRef THEN [err |-> Errorf(ErrScanNil), dst |-> v]
  ELSE IF value.type \notin {"string", "[]byte"}
  THEN [err |-> Errorf(ErrScanType), dst |-> v]
  ELSE LET parsed == Parse(ScanText(value))
       IN IF parsed.err # NoError
          THEN [err |-> Wrapf(CtxDBScan, parsed.err), dst |-> parsed.val]
          ELSE [err |-> NoError, dst |-> parsed.val]

\* Scan whose type switch has no []byte case
ScanStringOnly(v, value) ==
  IF value = NilRef THEN [err |-> Errorf(ErrScanNil), dst |-> v]
  ELSE IF value.type # "string"
  THEN [err |-> Errorf(ErrScanType), dst |-> v]
  ELSE LET parsed == Parse(value.s)
       IN IF parsed.err # NoError
          THEN [err |-> Wrapf(CtxDBScan, parsed.err), dst |-> v]
          ELSE [err |-> NoError, dst |-> parsed.val]

\* pointer receiver: dst is *u on return
Scan(v, value) ==
  IF value = NilRef THEN [err |-> Errorf(ErrScanNil), dst |-> v]
  ELSE IF value.type \notin {"string", "[]byte"}
  THEN [err |-> Errorf(ErrScanType), dst |-> v]
  ELSE LET parsed == Parse(ScanText(value))
       IN IF parsed.err # NoError
          THEN [err |-> Wrapf(CtxDBScan, parsed.err), dst |-> v]
          ELSE [err |-> NoError, dst |-> parsed.val]

ToProto(v) ==
  IF Validate(v) # NoError
  THEN [err |-> Wrapf(CtxProtoMarshal, Validate(v)), out |-> NilRef]
  ELSE [err |-> NoError, out |-> MsgOf(String(v))]

FromProto(pb) ==
  IF pb = NilRef THEN [err |-> Errorf(ErrNilProto), val |-> ZeroUUID]
  ELSE Parse(GetVal(pb))

ToStringValue(v) ==
  IF Validate(v) # NoError
  THEN [err |-> Wrapf(CtxStringValue, Validate(v)), out |-> NilRef]
  ELSE [err |-> NoError, out |-> WrapString(String(v))]

FromStringValue(sv) ==
  IF sv = NilRef THEN [err |-> Errorf(ErrNilStringValue), val |-> ZeroUUID]
  ELSE Parse(sv.Value)

(***************************************************************************)
(* helpers.go                                                              *)
(***************************************************************************)
StringToProto(s) ==
  LET validated == Parse(s)
  IN IF validated.err # NoError THEN [err |-> validated.err, out |-> NilRef]
     ELSE ToProto(validated.val)

ProtoToString(pb) ==
  LET validated == FromProto(pb)
  IN IF validated.err # NoError THEN [err |-> validated.err, out |-> StringOf(<<>>)]
     ELSE [err |-> NoError, out |-> StringOf(String(validated.val))]

\* ValidateProtoUUID that relies on GetVal for the nil message
ValidateProtoUUIDNoNilCheck(pb) == [err |-> Parse(GetVal(pb)).err, msg |-> pb]

\* msg is the message the caller passed, as the call leaves it
ValidateProtoUUID(pb) ==
  IF pb = NilRef THEN [err |-> Errorf(ErrNilProto), msg |-> pb]
  ELSE [err |-> Parse(GetVal(pb)).err, msg |-> pb]

ValidateStringUUID(s) == Parse(s).err

(***************************************************************************)
(* The inputs the operations are called with.                              *)
(***************************************************************************)
ToUpperChar(c) ==
  IF IndexOf(LowerLetters, c) # 0 THEN UpperLetters[IndexOf(LowerLetters, c)] ELSE c

UpperText(s) == [i \in 1..Len(s) |-> ToUpperChar(s[i])]

\* s with the character at position i replaced by c
WithChar(s, i, c) == [k \in 1..Len(s) |-> IF k = i THEN c ELSE s[k]]

Raws == {RawOf(k) : k \in 0..NumRaw}

\* a raw value that differs from Nil in its last byte only
AlmostNil == [i \in 1..16 |-> IF i = 16 THEN 1 ELSE 0]

\* the encodings of one raw value that the primitive parser accepts
EncodingsOf(raw) ==
  {uuidString(raw),
   UpperText(uuidString(raw)),
   UrnPrefix \o uuidString(raw),
   <<"{">> \o uuidString(raw) \o <<"}">>,
   HexOfBytes(raw, 1, 16)}

NotAUUID == <<"n", "o", "t", "-", "a", "-", "u", "u", "i", "d">>
InvalidUUID == <<"i", "n", "v", "a", "l", "i", "d", "-", "u", "u", "i", "d">>
Invalid == <<"i", "n", "v", "a", "l", "i", "d">>
TestText == uuidString(TestUUID)
ZeroText == uuidString(Nil)

MalformedTexts ==
  {NotAUUID, InvalidUUID, Invalid,
   WithChar(TestText, 9, "0"),
   WithChar(TestText, 1, "g"),
   WithChar(UrnPrefix \o TestText, 1, "x")}

Texts == {<<>>} \cup MalformedTexts \cup UNION {EncodingsOf(r) : r \in Raws}

ColumnValues ==
  {NilRef, Int64Of(42)} \cup {StringOf(t) : t \in Texts} \cup {BytesOf(t) : t \in Texts}

JSONDocs ==
  {<<Quote>> \o t \o <<Quote>> : t \in Texts}
    \cup {JSONNull, <<"4", "2">>, <<Quote, "a">>, TestText, <<>>}

Messages == {NilRef} \cup {MsgOf(t) : t \in Texts}

StringValues == {NilRef} \cup {WrapString(t) : t \in Texts}

GoogleUUIDs == Raws \cup {AlmostNil}

(***************************************************************************)
(* The state: one destination instance u that the methods are called on,   *)
(* and a record of the last call.                                          *)
(***************************************************************************)
VARIABLES
  u,     \* the instance the methods are called on
  u0,    \* the value u was constructed with
  prev,  \* the value of u when the last call started
  op,    \* the last operation called
  arg,   \* its argument
  ret,   \* what it returned: val, out, err, and msg, the passed message afterwards
  hist   \* SeqSpec only: the outcome of every decode call so far

vars == <<u, u0, prev, op, arg, ret, hist>>

Returned(val, out, err, msg) == [err |-> err, msg |-> msg, val |-> val, out |-> out]

Init ==
  /\ u \in {ZeroUUID} \cup New
  /\ u0 = u
  /\ prev = u
  /\ op = "init"
  /\ arg = NilRef
  /\ ret = Returned(ZeroUUID, NilRef, NoError, NilRef)
  /\ hist = <<>>

\* a call that leaves the instance alone
Call(name, a, r) ==
  /\ op' = name
  /\ arg' = a
  /\ ret' = r
  /\ prev' = u
  /\ UNCHANGED <<u, u0, hist>>

\* a call through the pointer receiver; r is [dst, err]
Decode(name, a, r) ==
  /\ op' = name
  /\ arg' = a
  /\ ret' = Returned(ZeroUUID, NilRef, r.err, NilRef)
  /\ prev' = u
  /\ u' = r.dst
  /\ UNCHANGED u0

CallNew ==
  \E v \in New : Call("New", NilRef, Returned(v, NilRef, NoError, NilRef))

CallParse ==
  \E s \in Texts :
    LET r == Parse(s)
    IN Call("Parse", StringOf(s), Returned(r.val, NilRef, r.err, NilRef))

CallFromGoogleUUID ==
  \E raw \in GoogleUUIDs :
    LET r == FromGoogleUUID(raw)
    IN Call("FromGoogleUUID", [raw |-> raw, type |-> "uuid.UUID"],
            Returned(r.val, NilRef, r.err, NilRef))

CallMarshalJSON ==
  LET r == MarshalJSON(u)
  IN Call("MarshalJSON", NilRef, Returned(ZeroUUID, r.out, r.err, NilRef))

CallUnmarshalJSON ==
  \E data \in JSONDocs :
    LET r == UnmarshalJSON(u, data)
    IN Decode("UnmarshalJSON", BytesOf(data), r) /\ UNCHANGED hist

CallValue ==
  LET r == Value(u)
  IN Call("Value", NilRef, Returned(ZeroUUID, r.out, r.err, NilRef))

CallScan ==
  \E value \in ColumnValues :
    LET r == Scan(u, value)
    IN Decode("Scan", value, r) /\ UNCHANGED hist

CallToProto ==
  LET r == ToProto(u)
  IN Call("ToProto", NilRef, Returned(ZeroUUID, r.out, r.err, NilRef))

CallFromProto ==
  \E pb \in Messages :
    LET r == FromProto(pb)
    IN Call("FromProto", pb, Returned(r.val, NilRef, r.err, pb))

CallToStringValue ==
  LET r == ToStringValue(u)
  IN Call("ToStringValue", NilRef, Returned(ZeroUUID, r.out, r.err, NilRef))

CallFromStringValue ==
  \E sv \in StringValues :
    LET r == FromStringValue(sv)
    IN Call("FromStringValue", sv, Returned(r.val, NilRef, r.err, sv))

CallStringToProto ==
  \E s \in Texts :
    LET r == StringToProto(s)
    IN Call("StringToProto", StringOf(s), Returned(ZeroUUID, r.out, r.err, NilRef))

CallProtoToString ==
  \E pb \in Messages :
    LET r == ProtoToString(pb)
    IN Call("ProtoToString", pb, Returned(ZeroUUID, r.out, r.err, pb))

CallValidateProtoUUID ==
  \E pb \in Messages :
    LET r == ValidateProtoUUID(pb)
    IN Call("ValidateProtoUUID", pb, Returned(ZeroUUID, NilRef, r.err, r.msg))

CallValidateStringUUID ==
  \E s \in Texts :
    Call("ValidateStringUUID", StringOf(s),
         Returned(ZeroUUID, NilRef, ValidateStringUUID(s), NilRef))

Next ==
  \/ CallNew
  \/ CallParse
  \/ CallFromGoogleUUID
  \/ CallMarshalJSON
  \/ CallUnmarshalJSON
  \/ CallValue
  \/ CallScan
  \/ CallToProto
  \/ CallFromProto
  \/ CallToStringValue
  \/ CallFromStringValue
  \/ CallStringToProto
  \/ CallProtoToString
  \/ CallValidateProtoUUID
  \/ CallValidateStringUUID

Spec == Init /\ [][Next]_vars

(***************************************************************************)
(* Sequences of in-place decodes of one destination, with their history.   *)
(***************************************************************************)
Outcome(r) == [ok |-> r.err = NoError, dst |-> IF r.err = NoError THEN r.dst ELSE ZeroUUID]

SeqScan ==
  /\ Len(hist) < MaxCalls
  /\ \E value \in ColumnValues :
       LET r == Scan(u, value)
       IN Decode("Scan", value, r) /\ hist' = Append(hist, Outcome(r))

SeqUnmarshalJSON ==
  /\ Len(hist) < MaxCalls
  /\ \E data \in JSONDocs :
       LET r == UnmarshalJSON(u, data)
       IN Decode("UnmarshalJSON", BytesOf(data), r) /\ hist' = Append(hist, Outcome(r))

SeqNext == SeqScan \/ SeqUnmarshalJSON

SeqSpec == Init /\ [][SeqNext]_vars

(***************************************************************************)
(* The vocabulary of the properties.                                       *)
(***************************************************************************)
MessagesOf(e) == {e[i] : i \in 1..Len(e)}

\* the error kind a caller recovers by unwrapping the chain
Kind(e) ==
  CASE e = NoError -> "none"
    [] ErrEmpty \in MessagesOf(e) -> "EmptyInput"
    [] ErrZero \in MessagesOf(e) -> "ZeroValue"
    [] ErrFormat \in MessagesOf(e) -> "MalformedText"
    [] ErrNilProto \in MessagesOf(e) \/ ErrNilStringValue \in MessagesOf(e) -> "NilMessage"
    [] ErrScanNil \in MessagesOf(e) -> "NilColumn"
    [] ErrScanType \in MessagesOf(e) -> "UnsupportedColumnType"
    [] OTHER -> "Notation"

ValidationKinds == {"EmptyInput", "MalformedText", "ZeroValue"}

Constructors == {"New", "Parse", "FromGoogleUUID", "FromProto", "FromStringValue"}
Outbound == {"MarshalJSON", "Value", "ToProto", "ToStringValue"}
InPlace == {"UnmarshalJSON", "Scan"}
ConversionPaths == Outbound \cup InPlace \cup {"FromProto", "FromStringValue"}

LowerHex == {Digits[i] : i \in 1..10} \cup {LowerLetters[i] : i \in 1..6}

\* the canonical 36-character lower-case hyphenated form of a non-zero UUID
IsCanonical(t) ==
  /\ Len(t) = 36
  /\ \A i \in 1..36 : IF i \in {9, 14, 19, 24} THEN t[i] = "-" ELSE t[i] \in LowerHex
  /\ \E i \in 1..36 : t[i] \notin {"0", "-"}

\* the text the last in-place decode handed to Parse
Extracted ==
  IF op = "Scan" THEN (IF arg.type = "string" THEN arg.s ELSE arg.b)
  ELSE jsonUnmarshalString(arg.b).s

(***************************************************************************)
(* C1: a constructor that returns no error returns a non-zero instance,    *)
(* one that returns an error returns the all-zero default value, and New   *)
(* never returns an error.                                                 *)
(***************************************************************************)
C1_ConstructedNeverZero ==
  op \in Constructors =>
    /\ ret.err = NoError => ~IsZero(ret.val)
    /\ ret.err # NoError => IsZero(ret.val) /\ ret.val = ZeroUUID
    /\ op = "New" => ret.err = NoError

C1_Witness ==
  /\ op = "FromGoogleUUID"
  /\ arg.raw = AlmostNil
  /\ ret.err = NoError
  /\ ~IsZero(ret.val)

(***************************************************************************)
(* C2: an outbound conversion of an all-zero instance fails with ZeroValue *)
(* and a nil result; of a non-zero instance it succeeds and its output     *)
(* carries exactly String(); so it fails iff IsZero().                     *)
(***************************************************************************)
C2_OutboundRevalidates ==
  op \in Outbound =>
    /\ ret.err # NoError <=> IsZero(u)
    /\ IsZero(u) => Kind(ret.err) = "ZeroValue" /\ ret.out = NilRef
    /\ ~IsZero(u) =>
         /\ op = "MarshalJSON" => ret.out = BytesOf(<<Quote>> \o String(u) \o <<Quote>>)
         /\ op = "Value" => ret.out = StringOf(String(u))
         /\ op = "ToProto" => ret.out = MsgOf(String(u))
         /\ op = "ToStringValue" => ret.out = WrapString(String(u))

C2_Witness ==
  /\ op = "Value"
  /\ IsZero(u)
  /\ Kind(ret.err) = "ZeroValue"
  /\ ret.out = NilRef

(***************************************************************************)
(* C3: Parse fails with EmptyInput on the empty string, else with          *)
(* MalformedText if the primitive parser rejects the text, else with       *)
(* ZeroValue if the parsed value is all-zero, else succeeds with the       *)
(* parsed value; "" is EmptyInput, "not-a-uuid" MalformedText and the      *)
(* all-zero text ZeroValue.                                                *)
(***************************************************************************)
C3_ParseOutcomes ==
  op = "Parse" =>
    /\ Kind(ret.err) =
         (IF arg.s = <<>> THEN "EmptyInput"
          ELSE IF uuidParse(arg.s).err # NoError THEN "MalformedText"
          ELSE IF uuidParse(arg.s).uuid = Nil THEN "ZeroValue"
          ELSE "none")
    /\ ret.err = NoError => ret.val = Validated(uuidParse(arg.s).uuid)
    /\ arg.s = <<>> => Kind(ret.err) = "EmptyInput"
    /\ arg.s = NotAUUID => Kind(ret.err) = "MalformedText"
    /\ arg.s = ZeroText => Kind(ret.err) = "ZeroValue"

C3_Witness ==
  /\ op = "Parse"
  /\ arg.s = <<>>
  /\ Kind(ret.err) = "EmptyInput"

(***************************************************************************)
(* C4: UnmarshalJSON and Scan leave the destination as it was when they    *)
(* return an error, and on success set it to the value Parse returns for   *)
(* the extracted text.                                                     *)
(***************************************************************************)
C4_DecodeOverwritesOnlyOnSuccess ==
  op \in InPlace =>
    /\ ret.err # NoError => u = prev
    /\ ret.err = NoError => Parse(Extracted).err = NoError /\ u = Parse(Extracted).val

C4_Witness ==
  /\ op = "Scan"
  /\ arg = StringOf(ZeroText)
  /\ Kind(ret.err) = "ZeroValue"
  /\ ~IsZero(prev)
  /\ u = prev

(***************************************************************************)
(* C5: for every canonical lower-case text t of a non-zero UUID, Parse(t)  *)
(* succeeds and Parse(t).String() = t.                                     *)
(***************************************************************************)
C5_TextRoundTrip ==
  (op = "Parse" /\ IsCanonical(arg.s)) =>
    /\ ret.err = NoError
    /\ String(ret.val) = arg.s

C5_Witness ==
  /\ op = "Parse"
  /\ arg.s = TestText
  /\ IsCanonical(arg.s)
  /\ ret.err = NoError
  /\ String(ret.val) = TestText

(***************************************************************************)
(* C6: for a non-zero instance, decoding what an encoding produced         *)
(* succeeds and yields an instance textually equal to it, for JSON, the    *)
(* structured message, the wrapped string and the storage column, whose    *)
(* value is the canonical text.                                            *)
(***************************************************************************)
C6_EncodeDecodeRoundTrip ==
  (op \in Outbound /\ ~IsZero(u)) =>
    /\ ret.err = NoError
    /\ op = "MarshalJSON" =>
         /\ UnmarshalJSON(ZeroUUID, ret.out.b).err = NoError
         /\ String(UnmarshalJSON(ZeroUUID, ret.out.b).dst) = String(u)
    /\ op = "ToProto" =>
         /\ FromProto(ret.out).err = NoError
         /\ String(FromProto(ret.out).val) = String(u)
    /\ op = "ToStringValue" =>
         /\ FromStringValue(ret.out).err = NoError
         /\ String(FromStringValue(ret.out).val) = String(u)
    /\ op = "Value" =>
         /\ ret.out = StringOf(String(u))
         /\ Scan(ZeroUUID, ret.out).err = NoError
         /\ String(Scan(ZeroUUID, ret.out).dst) = String(u)

C6_Witness ==
  /\ op = "MarshalJSON"
  /\ ~IsZero(u)
  /\ ret.err = NoError
  /\ UnmarshalJSON(ZeroUUID, ret.out.b).dst = u

(***************************************************************************)
(* C7: FromProto and FromStringValue fail with NilMessage on a nil         *)
(* message; Scan fails on a nil column and with UnsupportedColumnType on a *)
(* value that is neither string nor bytes; otherwise every decoder's       *)
(* outcome and validation error kind are those of Parse on the extracted   *)
(* string, and Scan of bytes behaves as Scan of the same bytes as text.    *)
(***************************************************************************)
C7_DecodersFunnelThroughParse ==
  /\ op \in {"FromProto", "FromStringValue"} =>
       IF arg = NilRef THEN Kind(ret.err) = "NilMessage"
       ELSE LET text == IF op = "FromProto" THEN arg.Val ELSE arg.Value
            IN /\ Kind(ret.err) = Kind(Parse(text).err)
               /\ ret.val = Parse(text).val
               /\ Kind(ret.err) \in ValidationKinds \cup {"none"}
  /\ op = "Scan" =>
       IF arg = NilRef THEN Kind(ret.err) = "NilColumn"
       ELSE IF arg.type \notin {"string", "[]byte"}
       THEN Kind(ret.err) = "UnsupportedColumnType"
       ELSE /\ Kind(ret.err) = Kind(Parse(Extracted).err)
            /\ Kind(ret.err) \in ValidationKinds \cup {"none"}
            /\ arg.type = "[]byte" =>
                 Scan(prev, StringOf(arg.b)) = [err |-> ret.err, dst |-> u]
  /\ op = "UnmarshalJSON" =>
       IF jsonUnmarshalString(arg.b).err # NoError THEN Kind(ret.err) = "Notation"
       ELSE /\ Kind(ret.err) = Kind(Parse(Extracted).err)
            /\ Kind(ret.err) \in ValidationKinds \cup {"none"}

C7_Witness ==
  /\ op = "Scan"
  /\ arg = BytesOf(TestText)
  /\ ret.err = NoError
  /\ u = Validated(TestUUID)

\* the messages a conversion path puts on its errors itself: every message
\* its own function creates is counted as identifying it
PathContexts(o) ==
  CASE o = "MarshalJSON" -> {CtxJSONMarshal}
    [] o = "UnmarshalJSON" -> {CtxJSONUnmarshal} \cup MessagesOf(JSONSyntaxError)
    [] o = "Value" -> {CtxDBWrite}
    [] o = "Scan" -> {CtxDBScan, ErrScanType, ErrScanNil}
    [] o = "ToProto" -> {CtxProtoMarshal}
    [] o = "ToStringValue" -> {CtxStringValue}
    [] o = "FromProto" -> {ErrNilProto}
    [] o = "FromStringValue" -> {ErrNilStringValue}
    [] OTHER -> {}

(***************************************************************************)
(* C8: every error a conversion path returns carries, outermost, a context *)
(* that identifies the path, wrapped around the underlying error kind.     *)
(***************************************************************************)
C8_ErrorsCarryPathContext ==
  (op \in ConversionPaths /\ ret.err # NoError) =>
    /\ Head(ret.err) \in PathContexts(op)
    /\ Kind(ret.err) # "none"

(***************************************************************************)
(* C9: ValidateStringUUID(s) returns Parse(s)'s outcome; ValidateProtoUUID *)
(* fails with NilMessage on nil and otherwise succeeds iff Parse(pb.Val),  *)
(* i.e. FromProto(pb), succeeds; neither alters the message or the state.  *)
(***************************************************************************)
C9_ValidateHelpersMatchParse ==
  /\ op = "ValidateStringUUID" =>
       /\ ret.err = NoError <=> Parse(arg.s).err = NoError
       /\ Kind(ret.err) = Kind(Parse(arg.s).err)
       /\ u = prev
  /\ op = "ValidateProtoUUID" =>
       /\ arg = NilRef => Kind(ret.err) = "NilMessage"
       /\ arg # NilRef =>
            /\ ret.err = NoError <=> Parse(arg.Val).err = NoError
            /\ Kind(ret.err) = Kind(Parse(arg.Val).err)
       /\ ret.err = NoError <=> FromProto(arg).err = NoError
       /\ ret.msg = arg
       /\ u = prev

C9_Witness ==
  /\ op = "ValidateProtoUUID"
  /\ arg = NilRef
  /\ Kind(ret.err) = "NilMessage"
  /\ ret.msg = NilRef

\* the decode calls of the history that succeeded
AnySucceeded == \E i \in 1..Len(hist) : hist[i].ok

LastSucceeded ==
  CHOOSE i \in 1..Len(hist) : hist[i].ok /\ \A j \in (i + 1)..Len(hist) : ~hist[j].ok

(***************************************************************************)
(* C10: over any sequence of Scan and UnmarshalJSON calls a non-zero       *)
(* destination stays non-zero; it is all-zero only if it started all-zero  *)
(* and no decode has succeeded; and it always equals the result of the     *)
(* most recent successful decode, or its initial value if there is none.   *)
(***************************************************************************)
C10_ValidityNeverLost ==
  /\ (op \in InPlace /\ ~IsZero(prev)) => ~IsZero(u)
  /\ (~IsZero(u0) \/ AnySucceeded) => ~IsZero(u)
  /\ IsZero(u) => IsZero(u0) /\ ~AnySucceeded
  /\ u = (IF AnySucceeded THEN hist[LastSucceeded].dst ELSE u0)

C10_Witness ==
  /\ Len(hist) = 3
  /\ IsZero(u0)
  /\ ~hist[1].ok
  /\ hist[2].ok
  /\ ~hist[3].ok
  /\ ~IsZero(u)
  /\ Kind(ret.err) = "ZeroValue"

====
